---- MODULE Spec2Model ----
(***************************************************************************)
(* Model of the appointment cleaning pipeline (src/src/cleaning.py).       *)
(*                                                                         *)
(* Cell values are tagged records so that text, missing values, parsed     *)
(* timestamps, booleans and numbers stay distinguishable:                  *)
(*   [str |-> s]   a Python str          NA   None / NaN (pd.isna is true) *)
(*   [ts |-> n]    a parsed Timestamp    NaT  the missing timestamp        *)
(*   [bool |-> b]  a Python bool         [num |-> n]  a float, in minutes  *)
(* Text is a TLA+ string, taken apart with Len and SubSeq.                 *)
(***************************************************************************)
EXTENDS Integers, Sequences, FiniteSets, TLC

Str(s) == [str |-> s]
NA == [none |-> TRUE]
NaT == [nat |-> TRUE]
Ts(n) == [ts |-> n]
Bool(b) == [bool |-> b]
Num(n) == [num |-> n]

IsStr(v) == DOMAIN v = {"str"}
IsTs(v) == DOMAIN v = {"ts"}
IsBool(v) == DOMAIN v = {"bool"}
IsNum(v) == DOMAIN v = {"num"}

\* pd.isna on a scalar
isna(v) == v = NA \/ v = NaT

(***************************************************************************)
(* Canonical vocabularies                                                  *)
(***************************************************************************)
CANON_STATUS == {"completed", "canceled", "no_show", "rescheduled"}
CANON_APPOINTMENT_TYPE == {"therapy", "med_check", "intake", "follow_up"}
CANON_INSURANCE_TYPE == {"medicaid", "medicare", "commercial", "self_pay"}
CANON_MODALITY == {"in_person", "telehealth"}

(***************************************************************************)
(* Python str methods used by _norm_text                                   *)
(***************************************************************************)
Upper == "ABCDEFGHIJKLMNOPQRSTUVWXYZ"
Lower == "abcdefghijklmnopqrstuvwxyz"
Whitespace == {" ", "\t", "\n"}

CharAt(s, i) == SubSeq(s, i, i)

\* str.lower on one character
LowerChar(c) ==
    IF \E i \in 1..Len(Upper) : CharAt(Upper, i) = c
    THEN CharAt(Lower, CHOOSE i \in 1..Len(Upper) : CharAt(Upper, i) = c)
    ELSE c

RECURSIVE str_lower(_)
str_lower(s) ==
    IF s = "" THEN "" ELSE LowerChar(CharAt(s, 1)) \o str_lower(SubSeq(s, 2, Len(s)))

\* str.strip(): drop leading and trailing whitespace
RECURSIVE str_lstrip(_)
str_lstrip(s) ==
    IF s # "" /\ CharAt(s, 1) \in Whitespace THEN str_lstrip(SubSeq(s, 2, Len(s))) ELSE s

RECURSIVE str_rstrip(_)
str_rstrip(s) ==
    IF s # "" /\ CharAt(s, Len(s)) \in Whitespace
    THEN str_rstrip(SubSeq(s, 1, Len(s) - 1)) ELSE s

str_strip(s) == str_rstrip(str_lstrip(s))

\* str.replace(old, new) for a one-character old
RECURSIVE str_replace(_, _, _)
str_replace(s, old, new) ==
    IF s = "" THEN ""
    ELSE (IF CharAt(s, 1) = old THEN new ELSE CharAt(s, 1))
         \o str_replace(SubSeq(s, 2, Len(s)), old, new)

\* str.split(): the maximal runs of non-whitespace, in order
RECURSIVE SplitFrom(_, _)
SplitFrom(s, word) ==
    IF s = "" THEN (IF word = "" THEN << >> ELSE << word >>)
    ELSE IF CharAt(s, 1) \in Whitespace
         THEN (IF word = "" THEN << >> ELSE << word >>)
              \o SplitFrom(SubSeq(s, 2, Len(s)), "")
         ELSE SplitFrom(SubSeq(s, 2, Len(s)), word \o CharAt(s, 1))

str_split(s) == SplitFrom(s, "")

\* sep.join(words)
RECURSIVE str_join(_, _)
str_join(sep, words) ==
    IF words = << >> THEN ""
    ELSE IF Len(words) = 1 THEN words[1]
    ELSE words[1] \o sep \o str_join(sep, Tail(words))

\* str(x) for the values a cell can hold before normalisation
py_str(v) ==
    IF IsStr(v) THEN v.str
    ELSE IF IsBool(v) THEN (IF v.bool THEN "True" ELSE "False")
    ELSE "?"

(***************************************************************************)
(* Normalisation helpers                                                   *)
(***************************************************************************)
_norm_text(raw_text) ==
    IF isna(raw_text) THEN ""
    ELSE LET stripped == str_lower(str_strip(py_str(raw_text)))
             replaced == str_replace(stripped, "-", " ")
         IN  str_join(" ", str_split(replaced))

truthy == {"true", "t", "yes", "y", "1"}
falsy == {"false", "f", "no", "n", "0"}

parse_boolish(raw_text) ==
    LET proc_text == _norm_text(raw_text)
    IN  IF proc_text = "" THEN NA
        ELSE IF proc_text \in truthy THEN Bool(TRUE)
        ELSE IF proc_text \in falsy THEN Bool(FALSE)
        ELSE NA

(***************************************************************************)
(* Category mappings (messy -> canonical): a dict is a set of key/value    *)
(* pairs with distinct keys                                                *)
(***************************************************************************)
\* STATUS_MAP without the underscored key of no_show
STATUS_MAP_NoUnderscore ==
    { <<"completed", "completed">>,
      <<"canceled", "canceled">>, <<"cancelled", "canceled">>,
      <<"no show", "no_show">>, <<"noshow", "no_show">>, <<"no-show", "no_show">>,
      <<"rescheduled", "rescheduled">>, <<"reschedule", "rescheduled">> }

STATUS_MAP ==
    { <<"completed", "completed">>,
      <<"canceled", "canceled">>, <<"cancelled", "canceled">>,
      <<"no show", "no_show">>, <<"no_show", "no_show">>,
      <<"noshow", "no_show">>, <<"no-show", "no_show">>,
      <<"rescheduled", "rescheduled">>, <<"reschedule", "rescheduled">> }

APPOINTMENT_TYPE_MAP ==
    { <<"therapy", "therapy">>,
      <<"med check", "med_check">>, <<"med_check", "med_check">>,
      <<"medcheck", "med_check">>, <<"med-check", "med_check">>,
      <<"intake", "intake">>,
      <<"follow up", "follow_up">>, <<"follow_up", "follow_up">>,
      <<"follow-up", "follow_up">> }

INSURANCE_TYPE_MAP ==
    { <<"medicaid", "medicaid">>, <<"mcd", "medicaid">>,
      <<"medicare", "medicare">>, <<"mcr", "medicare">>,
      <<"commercial", "commercial">>, <<"comm", "commercial">>,
      <<"private", "commercial">>,
      <<"self pay", "self_pay">>, <<"self_pay", "self_pay">> }

\* the literal dict of clean_appointments' step 3
MODALITY_MAP ==
    { <<"in_person", "in_person">>, <<"telehealth", "telehealth">> }

\* dict.get(key): the value under key, None when the key is absent
dict_get(mapping, key) ==
    IF \E kv \in mapping : kv[1] = key
    THEN Str((CHOOSE kv \in mapping : kv[1] = key)[2])
    ELSE NA

\* map_category letting a value it does not know through, normalised
map_category_passthrough(value, mapping) ==
    LET s == _norm_text(value)
    IN  IF s = "" THEN NA
        ELSE IF dict_get(mapping, s) = NA THEN Str(s) ELSE dict_get(mapping, s)

map_category(value, mapping) ==
    LET s == _norm_text(value)
    IN  IF s = "" THEN NA ELSE dict_get(mapping, s)

(***************************************************************************)
(* pd.to_datetime(..., errors="coerce") on one value.  The text this model *)
(* feeds it is either "YYYY-MM-DD HH:MM:SS" or text no format accepts; a   *)
(* parsed timestamp is its number of seconds since 1970-01-01 00:00:00.    *)
(***************************************************************************)
Digits == "0123456789"

IsDigit(c) == \E i \in 1..Len(Digits) : CharAt(Digits, i) = c

DigitVal(c) == (CHOOSE i \in 1..Len(Digits) : CharAt(Digits, i) = c) - 1

\* int(s) of an all-digit string
RECURSIVE ParseInt(_, _)
ParseInt(s, acc) ==
    IF s = "" THEN acc
    ELSE ParseInt(SubSeq(s, 2, Len(s)), 10 * acc + DigitVal(CharAt(s, 1)))

AllDigits(s) == \A i \in 1..Len(s) : IsDigit(CharAt(s, i))

IsLeap(y) == (y % 4 = 0 /\ y % 100 # 0) \/ y % 400 = 0

DaysInMonth(y, m) ==
    IF m = 2 THEN (IF IsLeap(y) THEN 29 ELSE 28)
    ELSE IF m \in {4, 6, 9, 11} THEN 30 ELSE 31

\* days since 1970-01-01 of a proleptic Gregorian date
DaysFromCivil(y, m, d) ==
    LET yy == IF m <= 2 THEN y - 1 ELSE y
        era == yy \div 400
        yoe == yy - era * 400
        mp == IF m > 2 THEN m - 3 ELSE m + 9
        doy == (153 * mp + 2) \div 5 + d - 1
        doe == yoe * 365 + yoe \div 4 - yoe \div 100 + doy
    IN  era * 146097 + doe - 719468

\* "YYYY-MM-DD HH:MM:SS" with every field in range
IsIsoDatetime(s) ==
    /\ Len(s) = 19
    /\ CharAt(s, 5) = "-" /\ CharAt(s, 8) = "-" /\ CharAt(s, 11) = " "
    /\ CharAt(s, 14) = ":" /\ CharAt(s, 17) = ":"
    /\ AllDigits(SubSeq(s, 1, 4)) /\ AllDigits(SubSeq(s, 6, 7))
    /\ AllDigits(SubSeq(s, 9, 10)) /\ AllDigits(SubSeq(s, 12, 13))
    /\ AllDigits(SubSeq(s, 15, 16)) /\ AllDigits(SubSeq(s, 18, 19))
    /\ LET y == ParseInt(SubSeq(s, 1, 4), 0)
           m == ParseInt(SubSeq(s, 6, 7), 0)
           d == ParseInt(SubSeq(s, 9, 10), 0)
       IN  /\ y >= 1970 /\ m \in 1..12 /\ d \in 1..DaysInMonth(y, m)
           /\ ParseInt(SubSeq(s, 12, 13), 0) \in 0..23
           /\ ParseInt(SubSeq(s, 15, 16), 0) \in 0..59
           /\ ParseInt(SubSeq(s, 18, 19), 0) \in 0..59

IsoSeconds(s) ==
    DaysFromCivil(ParseInt(SubSeq(s, 1, 4), 0), ParseInt(SubSeq(s, 6, 7), 0),
                  ParseInt(SubSeq(s, 9, 10), 0)) * 86400
    + ParseInt(SubSeq(s, 12, 13), 0) * 3600
    + ParseInt(SubSeq(s, 15, 16), 0) * 60
    + ParseInt(SubSeq(s, 18, 19), 0)

\* to_datetime with errors="ignore": text that does not parse stays as it is
to_datetime_ignore(v) ==
    IF IsTs(v) THEN v
    ELSE IF IsStr(v) /\ IsIsoDatetime(v.str) THEN Ts(IsoSeconds(v.str))
    ELSE IF IsStr(v) THEN v
    ELSE NaT

to_datetime(v) ==
    IF IsTs(v) THEN v
    ELSE IF IsStr(v) /\ IsIsoDatetime(v.str) THEN Ts(IsoSeconds(v.str))
    ELSE NaT

(***************************************************************************)
(* DataFrames: the set of column labels and the rows in order; a row keeps *)
(* its index label (its position in the table as loaded) and one cell per  *)
(* column.                                                                 *)
(***************************************************************************)
DataFrame(columns, rows) == [columns |-> columns, rows |-> rows]

Row(index, cells) == [index |-> index, cells |-> cells]

\* df[col]: the cells of a column, row by row
Column(df, col) == [i \in 1..Len(df.rows) |-> df.rows[i].cells[col]]

\* out[col] = series: a new column, or new cells for an existing one
SetColumn(df, col, series) ==
    DataFrame(df.columns \cup {col},
              [i \in 1..Len(df.rows) |->
                  Row(df.rows[i].index,
                      [c \in df.columns \cup {col} |->
                          IF c = col THEN series[i] ELSE df.rows[i].cells[c]])])

DATETIME_COLUMNS ==
    << "scheduled_start", "scheduled_end", "created_at", "check_in_time",
       "visit_start_time", "visit_end_time", "canceled_at" >>

RECURSIVE coerce_datetimes(_, _)
coerce_datetimes(df, cols) ==
    IF cols = << >> THEN df
    ELSE LET col == Head(cols)
             out == IF col \notin df.columns THEN df
                    ELSE SetColumn(df, col, [i \in 1..Len(df.rows) |->
                                               to_datetime(Column(df, col)[i])])
         IN  coerce_datetimes(out, Tail(cols))

(***************************************************************************)
(* Ordering of cell values, as sort_values compares them                   *)
(***************************************************************************)
\* the characters of the model's text, in code point order
CodePoints ==
    "\t\n -/0123456789:ABCDEFGHIJKLMNOPQRSTUVWXYZ_abcdefghijklmnopqrstuvwxyz"

Ord(c) == CHOOSE i \in 1..Len(CodePoints) : CharAt(CodePoints, i) = c

\* a < b on Python str (lexicographic by code point)
RECURSIVE str_lt(_, _)
str_lt(a, b) ==
    IF b = "" THEN FALSE
    ELSE IF a = "" THEN TRUE
    ELSE IF CharAt(a, 1) = CharAt(b, 1)
         THEN str_lt(SubSeq(a, 2, Len(a)), SubSeq(b, 2, Len(b)))
         ELSE Ord(CharAt(a, 1)) < Ord(CharAt(b, 1))

\* a sorts strictly before b in one sort key; missing values are equal to
\* each other and all go to the na_position end
ValLess(a, b, na_position) ==
    IF isna(a) /\ isna(b) THEN FALSE
    ELSE IF isna(a) THEN na_position = "first"
    ELSE IF isna(b) THEN na_position = "last"
    ELSE IF IsTs(a) THEN a.ts < b.ts
    ELSE str_lt(a.str, b.str)

\* two cells fall in the same group of a key (missing equals missing)
ValSame(a, b) == (isna(a) /\ isna(b)) \/ a = b

RECURSIVE RowLess(_, _, _, _)
RowLess(r1, r2, by, na_position) ==
    IF by = << >> THEN FALSE
    ELSE LET a == r1.cells[Head(by)]
             b == r2.cells[Head(by)]
         IN  \/ ValLess(a, b, na_position)
             \/ /\ ~ValLess(b, a, na_position)
                /\ RowLess(r1, r2, Tail(by), na_position)

\* r put before the rows it ties with: a sort that is not stable
InsertBeforeEqual(sorted, r, by, na_position) ==
    LET k == Cardinality({i \in 1..Len(sorted) :
                             RowLess(sorted[i], r, by, na_position)})
    IN  SubSeq(sorted, 1, k) \o << r >> \o SubSeq(sorted, k + 1, Len(sorted))

\* r put into the sorted sequence after every row that does not sort after it
InsertStable(sorted, r, by, na_position) ==
    LET k == Cardinality({i \in 1..Len(sorted) :
                             ~RowLess(r, sorted[i], by, na_position)})
    IN  SubSeq(sorted, 1, k) \o << r >> \o SubSeq(sorted, k + 1, Len(sorted))

RECURSIVE StableSort(_, _, _)
StableSort(rows, by, na_position) ==
    IF rows = << >> THEN << >>
    ELSE InsertStable(StableSort(SubSeq(rows, 1, Len(rows) - 1), by, na_position),
                      rows[Len(rows)], by, na_position)

\* the rows whose index label is in keep, in order
RECURSIVE SelectRows(_, _)
SelectRows(rows, keep) ==
    IF rows = << >> THEN << >>
    ELSE (IF Head(rows).index \in keep THEN << Head(rows) >> ELSE << >>)
         \o SelectRows(Tail(rows), keep)

(***************************************************************************)
(* The argsort behind a one-key sort_values: kind="quicksort", which on    *)
(* object keys is numpy's npy_aquicksort.  tosort holds positions into     *)
(* keys and is rearranged between pl and pr.  A range of more than         *)
(* SMALL_QUICKSORT + 1 positions is partitioned around the median of its   *)
(* first, middle and last key; a shorter range is sorted by insertion.     *)
(* The fall-back to heapsort after 2 * floor(log2(n)) nested partitions is *)
(* left out: the tables here are too short to nest that deep.              *)
(***************************************************************************)
SMALL_QUICKSORT == 16

\* keys[a] < keys[b] for two positions of non-missing keys
KeyLess(keys, a, b) == ValLess(keys[a], keys[b], "last")

Swap(tosort, i, j) == [tosort EXCEPT ![i] = tosort[j], ![j] = tosort[i]]

\* the three conditional swaps that put the median key at pm
MedianOfThree(tosort, keys, pl, pm, pr) ==
    LET t1 == IF KeyLess(keys, tosort[pm], tosort[pl]) THEN Swap(tosort, pm, pl)
              ELSE tosort
        t2 == IF KeyLess(keys, t1[pr], t1[pm]) THEN Swap(t1, pr, pm) ELSE t1
    IN  IF KeyLess(keys, t2[pm], t2[pl]) THEN Swap(t2, pm, pl) ELSE t2

\* do { ++pi; } while (key at pi < pivot key && pi < pj), entered at pi
RECURSIVE ScanUp(_, _, _, _, _)
ScanUp(tosort, keys, vp, pi, pj) ==
    IF KeyLess(keys, tosort[pi], vp) /\ pi < pj
    THEN ScanUp(tosort, keys, vp, pi + 1, pj)
    ELSE pi

\* do { --pj; } while (pivot key < key at pj && pi < pj), entered at pj
RECURSIVE ScanDown(_, _, _, _, _)
ScanDown(tosort, keys, vp, pi, pj) ==
    IF KeyLess(keys, vp, tosort[pj]) /\ pi < pj
    THEN ScanDown(tosort, keys, vp, pi, pj - 1)
    ELSE pj

\* the partition loop; gives the rearranged positions and where pi stopped
RECURSIVE PartitionLoop(_, _, _, _, _)
PartitionLoop(tosort, keys, vp, pi, pj) ==
    LET ni == ScanUp(tosort, keys, vp, pi + 1, pj)
        nj == ScanDown(tosort, keys, vp, ni, pj - 1)
    IN  IF ni >= nj THEN [tosort |-> tosort, pi |-> ni]
        ELSE PartitionLoop(Swap(tosort, ni, nj), keys, vp, ni, nj)

\* the position vi sifted down from pj past every greater key before it
RECURSIVE Sift(_, _, _, _, _)
Sift(tosort, keys, pl, pj, vi) ==
    IF pj > pl /\ KeyLess(keys, vi, tosort[pj - 1])
    THEN Sift([tosort EXCEPT ![pj] = tosort[pj - 1]], keys, pl, pj - 1, vi)
    ELSE [tosort EXCEPT ![pj] = vi]

\* insertion sort of tosort[pl..pr], the positions before pi already sorted
RECURSIVE InsertionSort(_, _, _, _, _)
InsertionSort(tosort, keys, pl, pr, pi) ==
    IF pi > pr THEN tosort
    ELSE InsertionSort(Sift(tosort, keys, pl, pi, tosort[pi]), keys, pl, pr, pi + 1)

RECURSIVE aquicksort(_, _, _, _)
aquicksort(tosort, keys, pl, pr) ==
    IF pr - pl > SMALL_QUICKSORT
    THEN LET pm == pl + ((pr - pl) \div 2)
             t3 == MedianOfThree(tosort, keys, pl, pm, pr)
             vp == t3[pm]
             part == PartitionLoop(Swap(t3, pm, pr - 1), keys, vp, pl, pr - 1)
             t5 == Swap(part.tosort, part.pi, pr - 1)
         IN  aquicksort(aquicksort(t5, keys, pl, part.pi - 1), keys, part.pi + 1, pr)
    ELSE InsertionSort(tosort, keys, pl, pr, pl + 1)

\* keys.argsort(kind="quicksort"): the positions of keys in sorted order
argsort(keys) == aquicksort([i \in 1..Len(keys) |-> i], keys, 1, Len(keys))

(***************************************************************************)
(* DataFrame.sort_values(by, na_position).                                 *)
(*   Several keys: pandas sorts with a lexsort, which is stable.           *)
(*   One key: pandas argsorts the non-missing keys with kind="quicksort"   *)
(*   and puts the rows with a missing key at the na_position end in their  *)
(*   input order.                                                          *)
(***************************************************************************)
sort_values(df, by, na_position) ==
    IF Len(by) > 1
    THEN DataFrame(df.columns, StableSort(df.rows, by, na_position))
    ELSE LET n == Len(df.rows)
             mask == {df.rows[i].index : i \in
                         {j \in 1..n : isna(df.rows[j].cells[by[1]])}}
             all == {df.rows[i].index : i \in 1..n}
             non_nans == SelectRows(df.rows, all \ mask)
             nans == SelectRows(df.rows, mask)
             indexer == argsort([i \in 1..Len(non_nans) |->
                                    non_nans[i].cells[by[1]]])
             sorted == [i \in 1..Len(non_nans) |-> non_nans[indexer[i]]]
         IN  DataFrame(df.columns,
                       IF na_position = "first" THEN nans \o sorted
                       ELSE sorted \o nans)

\* drop_duplicates with keep=False: every row of a repeated key goes
drop_duplicates_none(df, col) ==
    LET n == Len(df.rows)
        kept == {df.rows[i].index : i \in {j \in 1..n :
                    ~\E k \in (1..n) \ {j} :
                        ValSame(df.rows[k].cells[col], df.rows[j].cells[col])}}
    IN  DataFrame(df.columns, SelectRows(df.rows, kept))

\* DataFrame.drop_duplicates(subset=[col], keep="last")
drop_duplicates_last(df, col) ==
    LET n == Len(df.rows)
        kept == {df.rows[i].index : i \in {j \in 1..n :
                    ~\E k \in (j + 1)..n :
                        ValSame(df.rows[k].cells[col], df.rows[j].cells[col])}}
    IN  DataFrame(df.columns, SelectRows(df.rows, kept))

\* the keys dedupe_latest_created_at sorts by, and where it puts missing keys
DedupeBy(df) ==
    IF "created_at" \in df.columns THEN << "appointment_id", "created_at" >>
    ELSE << "appointment_id" >>

\* missing created_at sorted last, as the docstring of the function has it
DedupeNaPositionLast(df) == "last"

DedupeNaPosition(df) == IF "created_at" \in df.columns THEN "first" ELSE "last"

dedupe_latest_created_at(df) ==
    IF "appointment_id" \notin df.columns THEN df
    ELSE drop_duplicates_last(
             sort_values(df, DedupeBy(df), DedupeNaPosition(df)),
             "appointment_id")

(***************************************************************************)
(* Derived time features                                                   *)
(***************************************************************************)
SecondsPerMinute == 60

\* minutes with the sign dropped
minutes_abs(a, b) ==
    IF IsTs(a) /\ IsTs(b)
    THEN Num((IF a.ts >= b.ts THEN a.ts - b.ts ELSE b.ts - a.ts) \div SecondsPerMinute)
    ELSE NA

\* (a - b).total_seconds() / 60; NaT in, NaN out.  The model's timestamps
\* lie on whole minutes, so the quotient is exact.
minutes(a, b) ==
    IF IsTs(a) /\ IsTs(b) THEN Num((a.ts - b.ts) \div SecondsPerMinute) ELSE NA

\* minutes(out[first] - out[second]) as a series
MinutesBetween(df, first, second) ==
    [i \in 1..Len(df.rows) |-> minutes(Column(df, first)[i], Column(df, second)[i])]

add_time_features(df) ==
    LET out1 == IF {"scheduled_start", "created_at"} \subseteq df.columns
                THEN SetColumn(df, "lead_time_minutes",
                               MinutesBetween(df, "scheduled_start", "created_at")) ELSE df
        out2 == IF {"visit_start_time", "scheduled_start"} \subseteq out1.columns
                THEN SetColumn(out1, "wait_time_minutes",
                               MinutesBetween(out1, "visit_start_time", "scheduled_start")) ELSE out1
        out3 == IF {"visit_end_time", "visit_start_time"} \subseteq out2.columns
                THEN SetColumn(out2, "visit_duration_minutes",
                               MinutesBetween(out2, "visit_end_time", "visit_start_time")) ELSE out2
    IN  out3

(***************************************************************************)
(* The pipeline                                                            *)
(***************************************************************************)
\* out[col].map(lambda x: map_category(x, mapping))
MapCategories(df, col, mapping) ==
    [i \in 1..Len(df.rows) |-> map_category(Column(df, col)[i], mapping)]

\* steps 2 and 3: the categorical columns through their mappings
NormalizeCategories(df) ==
    LET o1 == IF "status" \in df.columns
              THEN SetColumn(df, "status", MapCategories(df, "status", STATUS_MAP)) ELSE df
        o2 == IF "appointment_type" \in o1.columns
              THEN SetColumn(o1, "appointment_type",
                             MapCategories(o1, "appointment_type", APPOINTMENT_TYPE_MAP)) ELSE o1
        o3 == IF "insurance_type" \in o2.columns
              THEN SetColumn(o2, "insurance_type",
                             MapCategories(o2, "insurance_type", INSURANCE_TYPE_MAP)) ELSE o2
        o4 == IF "visit_modality" \in o3.columns
              THEN SetColumn(o3, "visit_modality",
                             MapCategories(o3, "visit_modality", MODALITY_MAP)) ELSE o3
    IN  o4

\* step 4: the boolean-like columns
RECURSIVE ParseBooleans(_, _)
ParseBooleans(df, cols) ==
    IF cols = << >> THEN df
    ELSE ParseBooleans(IF Head(cols) \in df.columns
                       THEN SetColumn(df, Head(cols),
                                      [i \in 1..Len(df.rows) |->
                                          parse_boolish(Column(df, Head(cols))[i])]) ELSE df,
                       Tail(cols))

BOOLEAN_COLUMNS == << "follow_up_needed", "follow_up_scheduled" >>

\* clean_appointments up to its deduplication step
BeforeDedupe(df) ==
    ParseBooleans(NormalizeCategories(coerce_datetimes(df, DATETIME_COLUMNS)),
                  BOOLEAN_COLUMNS)

clean_appointments(df) ==
    add_time_features(dedupe_latest_created_at(BeforeDedupe(df)))

(***************************************************************************)
(* write_processed and the file system it touches.  A file system is the   *)
(* set of directories and the set of files that exist, by relative path;   *)
(* the working directory always exists.                                    *)
(***************************************************************************)
\* the position of the last "/" of path, 0 when it has none
RECURSIVE LastSlash(_, _)
LastSlash(path, i) ==
    IF i = 0 THEN 0
    ELSE IF CharAt(path, i) = "/" THEN i ELSE LastSlash(path, i - 1)

\* os.path.dirname on a relative path without doubled slashes
dirname(path) ==
    LET i == LastSlash(path, Len(path))
    IN  IF i = 0 THEN "" ELSE SubSeq(path, 1, i - 1)

basename(path) == SubSeq(path, LastSlash(path, Len(path)) + 1, Len(path))

endswith(s, suffix) ==
    Len(s) >= Len(suffix) /\ SubSeq(s, Len(s) - Len(suffix) + 1, Len(s)) = suffix

Outcome(fsys, err) == [fs |-> fsys, err |-> err]

\* the error of walking down to directory p from the working directory:
\* the first component that is a file, or that does not exist, decides it
RECURSIVE ResolveDir(_, _)
ResolveDir(fsys, p) ==
    IF p = "" THEN ""
    ELSE LET up == ResolveDir(fsys, dirname(p))
         IN  IF up # "" THEN up
             ELSE IF p \in fsys.files THEN "NotADirectoryError"
             ELSE IF p \notin fsys.dirs THEN "FileNotFoundError"
             ELSE ""

\* os.mkdir(name)
mkdir(fsys, name) ==
    IF name = "" THEN Outcome(fsys, "FileNotFoundError")
    ELSE IF ResolveDir(fsys, dirname(name)) # ""
         THEN Outcome(fsys, ResolveDir(fsys, dirname(name)))
    ELSE IF name \in fsys.dirs \cup fsys.files THEN Outcome(fsys, "FileExistsError")
    ELSE Outcome([fsys EXCEPT !.dirs = @ \cup {name}], "")

\* os.makedirs(name, exist_ok=True)
RECURSIVE makedirs(_, _)
makedirs(fsys, name) ==
    LET head == dirname(name)
        tail == basename(name)
        up == IF head # "" /\ tail # "" /\ head \notin fsys.dirs \cup fsys.files
              THEN makedirs(fsys, head) ELSE Outcome(fsys, "")
    IN  IF up.err \notin {"", "FileExistsError"} THEN up
        ELSE LET made == mkdir(up.fs, name)
             IN  IF made.err = "FileExistsError" /\ name \in up.fs.dirs
                 THEN Outcome(up.fs, "")
                 ELSE made

\* df.to_csv(path) / df.to_parquet(path): create or truncate the file
write_file(fsys, path) ==
    IF path \in fsys.dirs THEN Outcome(fsys, "IsADirectoryError")
    ELSE Outcome([fsys EXCEPT !.files = @ \cup {path}], "")

write_processed(fsys, path) ==
    LET made == makedirs(fsys, dirname(path))
    IN  IF made.err # "" THEN made
        ELSE IF endswith(path, ".parquet") THEN write_file(made.fs, path)
        ELSE IF endswith(path, ".csv") THEN write_file(made.fs, path)
        ELSE Outcome(made.fs, "ValueError")

(***************************************************************************)
(* Inputs                                                                  *)
(***************************************************************************)
MaxRows == 3
MaxVariantRows == 2
MaxWrites == 2
\* the longest table; long enough for the one-key sort to partition
LongRows == 18

S(x) == Str(x)

AllColumns ==
    { "appointment_id", "created_at", "scheduled_start", "scheduled_end",
      "check_in_time", "visit_start_time", "visit_end_time", "canceled_at",
      "status", "appointment_type", "insurance_type", "visit_modality",
      "follow_up_needed", "follow_up_scheduled", "cancel_reason" }

\* raw rows as a delimited-text file holds them: text, or an empty field (NA)
RowVariants ==
    << [appointment_id |-> S("A1"), created_at |-> S("2024-01-01 10:00:00"),
        scheduled_start |-> S("2024-01-03 09:00:00"),
        scheduled_end |-> S("2024-01-03 10:00:00"),
        check_in_time |-> S("2024-01-03 08:50:00"),
        visit_start_time |-> S("2024-01-03 09:05:00"),
        visit_end_time |-> S("2024-01-03 09:55:00"), canceled_at |-> NA,
        status |-> S("Completed"), appointment_type |-> S("Therapy"),
        insurance_type |-> S("Medicaid"), visit_modality |-> S("in_person"),
        follow_up_needed |-> S("Y"), follow_up_scheduled |-> S("no"),
        cancel_reason |-> NA],
       [appointment_id |-> S("A1"), created_at |-> S("2024-01-02 09:00:00"),
        scheduled_start |-> S("2024-01-03 09:00:00"),
        scheduled_end |-> S("2024-01-03 10:00:00"),
        check_in_time |-> NA, visit_start_time |-> NA,
        visit_end_time |-> NA, canceled_at |-> NA,
        status |-> S("No-Show"), appointment_type |-> S("med-check"),
        insurance_type |-> S("self-pay"), visit_modality |-> S("in-person"),
        follow_up_needed |-> S(""), follow_up_scheduled |-> S("maybe"),
        cancel_reason |-> NA],
       [appointment_id |-> S("A2"), created_at |-> S("not a date"),
        scheduled_start |-> S("2024-13-45 10:00:00"),
        scheduled_end |-> S("2024-02-30 10:00:00"),
        check_in_time |-> S("2024-01-05 14:10:00"),
        visit_start_time |-> S("2024-01-05 14:30:00"),
        visit_end_time |-> S("2024-01-05 14:00:00"), canceled_at |-> S("n/a"),
        status |-> S("  NO   SHOW "), appointment_type |-> S("Follow Up"),
        insurance_type |-> S("SELF PAY"), visit_modality |-> S("In Person"),
        follow_up_needed |-> S("TRUE"), follow_up_scheduled |-> S(" f "),
        cancel_reason |-> S("patient request")],
       [appointment_id |-> NA, created_at |-> NA,
        scheduled_start |-> S("2024-01-04 08:00:00"),
        scheduled_end |-> NA, check_in_time |-> NA,
        visit_start_time |-> S("2024-01-04 07:45:00"),
        visit_end_time |-> S("2024-01-04 08:30:00"),
        canceled_at |-> S("2024-01-03 16:00:00"),
        status |-> S("pending"), appointment_type |-> S("FOLLOW_UP"),
        insurance_type |-> S("mcd"), visit_modality |-> S("Telehealth"),
        follow_up_needed |-> NA, follow_up_scheduled |-> S("0"),
        cancel_reason |-> S("no-show")],
       [appointment_id |-> S("A2"), created_at |-> S("2024-01-02 09:00:00"),
        scheduled_start |-> S("2024-01-01 09:00:00"),
        scheduled_end |-> S("2024-01-01 09:30:00"),
        check_in_time |-> S(""), visit_start_time |-> S(""),
        visit_end_time |-> S("2024-01-01 09:40:00"),
        canceled_at |-> S("2024-01-01 08:00:00"),
        status |-> S("cancelled"), appointment_type |-> S("med_check"),
        insurance_type |-> S("self_pay"), visit_modality |-> S("telehealth"),
        follow_up_needed |-> S("n"), follow_up_scheduled |-> S("yes"),
        cancel_reason |-> S("weather")],
       [appointment_id |-> S("A1"), created_at |-> S("2024-01-02 09:00:00"),
        scheduled_start |-> S("2024-02-29 23:59:00"),
        scheduled_end |-> S("2024-03-01 00:29:00"),
        check_in_time |-> S("2024-02-29 23:50:00"),
        visit_start_time |-> S("2024-03-01 00:02:00"),
        visit_end_time |-> S("2024-03-01 00:31:00"), canceled_at |-> NA,
        status |-> S("no_show"), appointment_type |-> S("MED CHECK"),
        insurance_type |-> S("Private"), visit_modality |-> S("IN_PERSON"),
        follow_up_needed |-> S("1"), follow_up_scheduled |-> S("T"),
        cancel_reason |-> NA],
       [appointment_id |-> NA, created_at |-> S("2024-01-01 10:00:00"),
        scheduled_start |-> NA, scheduled_end |-> NA,
        check_in_time |-> NA, visit_start_time |-> NA,
        visit_end_time |-> NA, canceled_at |-> NA,
        status |-> NA, appointment_type |-> NA,
        insurance_type |-> NA, visit_modality |-> NA,
        follow_up_needed |-> NA, follow_up_scheduled |-> NA,
        cancel_reason |-> NA],
       [appointment_id |-> S("A2"), created_at |-> S("2024-01-02 09:00:00"),
        scheduled_start |-> S("2024-01-02 08:00:00"),
        scheduled_end |-> S("2024-01-02 08:45:00"),
        check_in_time |-> S("2024-01-02 07:55:00"),
        visit_start_time |-> S("2024-01-02 08:00:00"),
        visit_end_time |-> S("2024-01-02 08:45:00"), canceled_at |-> NA,
        status |-> S("Reschedule"), appointment_type |-> S("intake"),
        insurance_type |-> S("MCR"), visit_modality |-> S("virtual"),
        follow_up_needed |-> S("No"), follow_up_scheduled |-> S("y"),
        cancel_reason |-> NA] >>

NumVariants == Len(RowVariants)

\* the column sets the variant tables come with
ColumnSets ==
    { AllColumns,
      AllColumns \ {"created_at"},
      AllColumns \ {"appointment_id", "visit_end_time", "status"},
      AllColumns \ {"visit_start_time", "visit_modality", "insurance_type"},
      AllColumns \ {"scheduled_start", "appointment_type", "canceled_at",
                    "follow_up_needed"},
      {"appointment_id", "created_at", "status", "scheduled_start"} }

Project(cells, columns) == [c \in columns |-> cells[c]]

\* a table of the given variants, restricted to columns, indexed 0..n-1
VariantTable(columns, picks) ==
    DataFrame(columns,
              [i \in 1..Len(picks) |->
                  Row(i - 1, Project(RowVariants[picks[i]], columns))])

VariantTables ==
    { VariantTable(cs, picks) :
        cs \in ColumnSets,
        picks \in UNION {[1..n -> 1..NumVariants] : n \in 1..MaxVariantRows} }

\* tables that vary the deduplication keys row by row
RawIds == {S("A1"), S("A2"), NA}
RawCreated == {S("2024-01-01 10:00:00"), S("2024-01-02 09:00:00"), NA}

KeyColumnSets ==
    { {"appointment_id", "created_at", "status", "scheduled_start"},
      {"appointment_id", "status", "scheduled_start"} }

KeyTable(columns, ids, created) ==
    DataFrame(columns,
              [i \in 1..Len(ids) |->
                  Row(i - 1,
                      Project([RowVariants[((i - 1) % NumVariants) + 1] EXCEPT
                                  !["appointment_id"] = ids[i],
                                  !["created_at"] = created[i]],
                              columns))])

KeyTables ==
    UNION { { KeyTable(cs, ids, created) :
                cs \in KeyColumnSets,
                ids \in [1..n -> RawIds],
                created \in [1..n -> RawCreated] } : n \in 1..MaxRows }

\* longer tables of two appointment_ids: a run of one id and then the
\* other, or the second id at every period-th row; lead rows at the top
\* have no id; created_at, where present, holds two timestamps by turns
LongIds(n, run, period, lead) ==
    [i \in 1..n |->
        IF i <= lead THEN NA
        ELSE IF period = 0 THEN (IF i <= run THEN S("A1") ELSE S("A2"))
        ELSE IF i % period = 0 THEN S("A2") ELSE S("A1")]

LongCreated(n) ==
    [i \in 1..n |-> IF i % 3 = 0 THEN S("2024-01-01 10:00:00")
                    ELSE S("2024-01-02 09:00:00")]

LongTables ==
    UNION { { KeyTable(cs, LongIds(n, run, 0, lead), LongCreated(n)) :
                cs \in KeyColumnSets, run \in 0..n, lead \in 0..1 }
            \cup
            { KeyTable(cs, LongIds(n, 0, period, lead), LongCreated(n)) :
                cs \in KeyColumnSets, period \in 2..3, lead \in 0..1 }
          : n \in (MaxRows + 1)..LongRows }

Tables == VariantTables \cup KeyTables \cup LongTables

EmptyFrame == DataFrame({}, << >>)

\* raw spellings of the categorical fields
Fields == {"status", "appointment_type", "insurance_type", "visit_modality"}

Canon(field) ==
    CASE field = "status" -> CANON_STATUS
      [] field = "appointment_type" -> CANON_APPOINTMENT_TYPE
      [] field = "insurance_type" -> CANON_INSURANCE_TYPE
      [] field = "visit_modality" -> CANON_MODALITY

\* the mapping table clean_appointments uses for each categorical column
Mapping(field) ==
    CASE field = "status" -> STATUS_MAP
      [] field = "appointment_type" -> APPOINTMENT_TYPE_MAP
      [] field = "insurance_type" -> INSURANCE_TYPE_MAP
      [] field = "visit_modality" -> MODALITY_MAP

\* the two words of a canonical value written with an underscore
TwoWord(field) == {c \in Canon(field) : \E i \in 1..Len(c) : CharAt(c, i) = "_"}

FirstWord(c) == SubSeq(c, 1, (CHOOSE i \in 1..Len(c) : CharAt(c, i) = "_") - 1)
SecondWord(c) == SubSeq(c, (CHOOSE i \in 1..Len(c) : CharAt(c, i) = "_") + 1, Len(c))

UpperChar(c) ==
    IF \E i \in 1..Len(Lower) : CharAt(Lower, i) = c
    THEN CharAt(Upper, CHOOSE i \in 1..Len(Lower) : CharAt(Lower, i) = c)
    ELSE c

RECURSIVE str_upper(_)
str_upper(s) ==
    IF s = "" THEN "" ELSE UpperChar(CharAt(s, 1)) \o str_upper(SubSeq(s, 2, Len(s)))

Capitalize(s) == IF s = "" THEN "" ELSE UpperChar(CharAt(s, 1)) \o SubSeq(s, 2, Len(s))

RECURSIVE Alternate(_, _)
Alternate(s, up) ==
    IF s = "" THEN ""
    ELSE (IF up THEN UpperChar(CharAt(s, 1)) ELSE CharAt(s, 1))
         \o Alternate(SubSeq(s, 2, Len(s)), ~up)

Cases == {"lower", "upper", "title", "mixed"}

InCase(w, case) ==
    CASE case = "lower" -> w
      [] case = "upper" -> str_upper(w)
      [] case = "title" -> Capitalize(w)
      [] case = "mixed" -> Alternate(w, FALSE)

\* underscore, hyphen, space, repeated whitespace
Separators == {"_", "-", " ", "  ", " \t "}
Paddings == { <<"", "">>, <<" ", "">>, <<"", "  ">>, <<"\t ", " \n">> }

Spell(c, sep, case, pad) ==
    pad[1] \o InCase(FirstWord(c), case) \o sep \o InCase(SecondWord(c), case) \o pad[2]

\* other raw values: single words, abbreviations, unknown tokens, blanks
OtherRaw ==
    { S("completed"), S("Canceled"), S("CANCELLED"), S("noshow"), S("reschedule"),
      S("therapy"), S("medcheck"), S(" Intake"), S("mcd"), S("MCR"), S("comm"),
      S("private"), S("Medicare"), S("telehealth"), S("TeleHealth "),
      S("pending"), S("walk-in"), S("no_ show"), S(""), S("   "), S("-"), NA }

FS_Options ==
    { [dirs |-> {}, files |-> {}],
      [dirs |-> {"out"}, files |-> {}],
      [dirs |-> {"out"}, files |-> {"out/data.csv"}],
      [dirs |-> {}, files |-> {"out"}] }

Paths ==
    { "out/data.csv", "out/data.parquet", "out/data.txt", "out/new/report.json",
      "reports/2024/q1/summary.xlsx", "data.txt", "data.csv",
      "out/data.csv/x.txt", "out/data.csv/sub/x.csv", "out/new.csv/data.csv" }

(***************************************************************************)
(* The state: one call of the module's functions after another             *)
(***************************************************************************)
VARIABLES
    stage,      \* what the last call was
    df,         \* the table the last call was given
    out,        \* the table the last call returned
    field,      \* the categorical field of a map_category call
    canon,      \* the canonical value whose spelling is value, "" when none is
    value,      \* the raw value given to map_category
    mapped,     \* what map_category returned
    fs,         \* the file system
    fs_before,  \* the file system before the last write_processed call
    path,       \* the path given to the last write_processed call
    raised,     \* the error the last write_processed call raised, "" when none
    writes      \* the number of write_processed calls made

vars == << stage, df, out, field, canon, value, mapped, fs, fs_before, path,
           raised, writes >>

tableVars == << df, out >>
textVars == << field, canon, value, mapped >>
fileVars == << fs, fs_before, path, raised, writes >>

NoText == /\ field = "" /\ canon = "" /\ value = NA /\ mapped = NA

NoFiles ==
    /\ fs = [dirs |-> {}, files |-> {}] /\ fs_before = fs
    /\ path = "" /\ raised = "" /\ writes = 0

InitTable ==
    /\ stage = "raw"
    /\ df \in Tables
    /\ out = df
    /\ NoText /\ NoFiles

InitText ==
    /\ stage = "text"
    /\ df = EmptyFrame /\ out = EmptyFrame
    /\ field \in Fields
    /\ \/ /\ canon \in TwoWord(field)
          /\ \E sep \in Separators, case \in Cases, pad \in Paddings :
                value = S(Spell(canon, sep, case, pad))
       \/ /\ canon = ""
          /\ value \in OtherRaw
    /\ mapped = NA
    /\ NoFiles

InitFiles ==
    /\ stage = "files"
    /\ df = EmptyFrame /\ out = EmptyFrame
    /\ NoText
    /\ fs \in FS_Options /\ fs_before = fs
    /\ path = "" /\ raised = "" /\ writes = 0

Init == InitTable \/ InitText \/ InitFiles

\* coerce_datetimes(df) on a raw table
CoerceDatetimes ==
    /\ stage = "raw"
    /\ out' = coerce_datetimes(df, DATETIME_COLUMNS)
    /\ stage' = "coerced"
    /\ UNCHANGED << df, textVars, fileVars >>

\* dedupe_latest_created_at(df) on a coerced table
DedupeLatestCreatedAt ==
    /\ stage = "coerced"
    /\ df' = out
    /\ out' = dedupe_latest_created_at(out)
    /\ stage' = "deduped"
    /\ UNCHANGED << textVars, fileVars >>

\* add_time_features(df) on a coerced table, deduplicated or not
AddTimeFeatures ==
    /\ stage \in {"coerced", "deduped"}
    /\ df' = out
    /\ out' = add_time_features(out)
    /\ stage' = "featured"
    /\ UNCHANGED << textVars, fileVars >>

\* clean_appointments(df) on a raw table
CleanAppointments ==
    /\ stage = "raw"
    /\ out' = clean_appointments(df)
    /\ stage' = "cleaned"
    /\ UNCHANGED << df, textVars, fileVars >>

\* clean_appointments on the table clean_appointments returned
CleanAgain ==
    /\ stage = "cleaned"
    /\ df' = out
    /\ out' = clean_appointments(out)
    /\ stage' = "recleaned"
    /\ UNCHANGED << textVars, fileVars >>

\* map_category(value, mapping of the field)
MapCategory ==
    /\ stage = "text"
    /\ mapped' = map_category(value, Mapping(field))
    /\ stage' = "mapped"
    /\ UNCHANGED << tableVars, field, canon, value, fileVars >>

\* write_processed(df, path)
WriteProcessed ==
    /\ stage \in {"files", "written"}
    /\ writes < MaxWrites
    /\ \E p \in Paths :
          LET done == write_processed(fs, p)
          IN  /\ path' = p
              /\ fs_before' = fs
              /\ fs' = done.fs
              /\ raised' = done.err
    /\ writes' = writes + 1
    /\ stage' = "written"
    /\ UNCHANGED << tableVars, textVars >>

Next ==
    \/ CoerceDatetimes
    \/ DedupeLatestCreatedAt
    \/ AddTimeFeatures
    \/ CleanAppointments
    \/ CleanAgain
    \/ MapCategory
    \/ WriteProcessed

Spec == Init /\ [][Next]_vars

(***************************************************************************)
(* Vocabulary of the properties                                            *)
(***************************************************************************)
Indexes(t) == {t.rows[i].index : i \in 1..Len(t.rows)}

RowAt(t, idx) == t.rows[CHOOSE i \in 1..Len(t.rows) : t.rows[i].index = idx]

\* the position of the row labelled idx in t
PosOf(t, idx) == CHOOSE i \in 1..Len(t.rows) : t.rows[i].index = idx

RowSet(t) == {t.rows[i] : i \in 1..Len(t.rows)}

\* the rows of t in the appointment_id group of r
Group(t, r) ==
    {q \in RowSet(t) : ValSame(q.cells["appointment_id"], r.cells["appointment_id"])}

\* the timestamp a raw or coerced created_at cell stands for
Created(r) == to_datetime(r.cells["created_at"])

\* timestamp a is not later than b, the missing timestamp being the earliest
NotLater(a, b) == a = NaT \/ (IsTs(a) /\ IsTs(b) /\ a.ts <= b.ts)

CanonicalOrNull(v, f) == v = NA \/ (IsStr(v) /\ v.str \in Canon(f))

Cleaned == stage = "cleaned"

\* C1: after clean_appointments every cell of status, appointment_type,
\* insurance_type and visit_modality is null or a member of that column's
\* canonical vocabulary.
C1_CategoriesCanonicalOrNull ==
    stage \in {"cleaned", "recleaned"} =>
        \A f \in Fields \cap out.columns : \A r \in RowSet(out) :
            CanonicalOrNull(r.cells[f], f)

\* a cleaned table that came with an unmapped spelling, a mapped synonym and
\* a spelling outside its column's table in all four columns
C1_Witness ==
    /\ Cleaned /\ Fields \subseteq df.columns
    /\ \E r \in RowSet(df) : r.cells["status"] = S("pending")
                             /\ RowAt(out, r.index).cells["status"] = NA
    /\ \E r \in RowSet(df) : r.cells["insurance_type"] = S("mcd")
                             /\ RowAt(out, r.index).cells["insurance_type"] = S("medicaid")
    /\ \E r \in RowSet(df) : r.cells["visit_modality"] = S("virtual")

\* C2 as stated: with an appointment_id column, after clean_appointments no
\* appointment_id is null and no two rows share one.
C2_IdsNonNullAndUnique ==
    (Cleaned /\ "appointment_id" \in df.columns) =>
        /\ \A r \in RowSet(out) : ~isna(r.cells["appointment_id"])
        /\ \A i, j \in 1..Len(out.rows) :
              i # j => out.rows[i].cells["appointment_id"]
                         # out.rows[j].cells["appointment_id"]

\* C3: the row clean_appointments retains for an appointment_id has the
\* greatest coerced created_at of that id's rows, a missing or unparseable
\* created_at ranking below every real timestamp.
C3_RetainsLatestCreatedAt ==
    (Cleaned /\ {"appointment_id", "created_at"} \subseteq df.columns) =>
        \A r \in RowSet(df) :
            /\ Cardinality(Group(out, r)) = 1
            /\ \A o \in Group(out, r) :
                  /\ o.index \in {q.index : q \in Group(df, r)}
                  /\ o.cells["created_at"] = Created(RowAt(df, o.index))
                  /\ NotLater(Created(r), o.cells["created_at"])

\* a group whose last row in input order has no usable created_at while an
\* earlier row has a real one, and that earlier row is the one retained
C3_Witness ==
    /\ Cleaned /\ {"appointment_id", "created_at"} \subseteq df.columns
    /\ \E r, q \in RowSet(df) :
          /\ r.index < q.index /\ q \in Group(df, r)
          /\ IsTs(Created(r)) /\ Created(q) = NaT
          /\ r.index \in Indexes(out) /\ q.index \notin Indexes(out)
    /\ \E r, q \in RowSet(df) :
          /\ r.index < q.index /\ q \in Group(df, r)
          /\ IsTs(Created(r)) /\ IsTs(Created(q)) /\ Created(q).ts < Created(r).ts
          /\ r.index \in Indexes(out)

Pairs ==
    { << "lead_time_minutes", "scheduled_start", "created_at" >>,
      << "wait_time_minutes", "visit_start_time", "scheduled_start" >>,
      << "visit_duration_minutes", "visit_end_time", "visit_start_time" >> }

\* C4: add_time_features creates each derived column exactly when both of
\* its source columns exist; a row's value is first minus second in minutes
\* with its sign, null exactly when an operand is missing; no row is dropped.
C4_TimeFeatures ==
    stage = "featured" =>
        /\ [i \in 1..Len(out.rows) |-> out.rows[i].index]
              = [i \in 1..Len(df.rows) |-> df.rows[i].index]
        /\ \A p \in Pairs :
              /\ p[1] \in out.columns <=> {p[2], p[3]} \subseteq df.columns
              /\ p[1] \in out.columns =>
                    \A i \in 1..Len(df.rows) :
                        LET a == df.rows[i].cells[p[2]]
                            b == df.rows[i].cells[p[3]]
                            m == out.rows[i].cells[p[1]]
                        IN  /\ (a = NaT \/ b = NaT) <=> m = NA
                            /\ m # NA => /\ IsNum(m)
                                         /\ m.num * SecondsPerMinute = a.ts - b.ts

\* a table without created_at whose visit ended before it started in one
\* row and has a visit end but no visit start in another
C4_Witness ==
    /\ stage = "featured"
    /\ "lead_time_minutes" \notin out.columns
    /\ "visit_duration_minutes" \in out.columns
    /\ \E r \in RowSet(out) : /\ r.cells["visit_duration_minutes"] # NA
                              /\ r.cells["visit_duration_minutes"].num < 0
    /\ \E r \in RowSet(out) : /\ r.cells["visit_duration_minutes"] = NA
                              /\ IsTs(r.cells["visit_end_time"])
                              /\ r.cells["visit_start_time"] = NaT

\* C5: clean_appointments applied to its own output removes no row and
\* leaves every categorical cell as it was.
C5_Idempotent ==
    stage = "recleaned" =>
        /\ Indexes(out) = Indexes(df)
        /\ Len(out.rows) = Len(df.rows)
        /\ \A f \in Fields \cap df.columns : \A r \in RowSet(df) :
              RowAt(out, r.index).cells[f] = r.cells[f]

\* a second pass over two rows that hold two-word canonical values and a null
C5_Witness ==
    /\ stage = "recleaned" /\ Len(df.rows) >= 2 /\ Fields \subseteq df.columns
    /\ \E r \in RowSet(df) : /\ r.cells["status"] = S("no_show")
                             /\ r.cells["insurance_type"] = S("self_pay")
    /\ \E r \in RowSet(df) : r.cells["visit_modality"] = NA

\* C6 as stated: every underscored, hyphenated or space-separated spelling
\* of a two-word canonical value, in any letter case and with surrounding or
\* repeated whitespace, maps through its field's table to that value.
C6_SpellingsMapToCanonical ==
    (stage = "mapped" /\ canon # "") => mapped = S(canon)

\* C7 as stated: write_processed with a path that ends in neither .parquet
\* nor .csv raises the unsupported-format error and leaves the file system
\* as it was.
C7_UnsupportedLeavesNoTrace ==
    (stage = "written" /\ ~endswith(path, ".parquet") /\ ~endswith(path, ".csv")) =>
        /\ raised = "ValueError"
        /\ fs = fs_before

DatetimeColumnSet == {DATETIME_COLUMNS[i] : i \in 1..Len(DATETIME_COLUMNS)}

\* raw values no timestamp format accepts
Unparseable ==
    { S("not a date"), S("2024-13-45 10:00:00"), S("2024-02-30 10:00:00"),
      S("n/a"), S(""), NA }

\* C8: after coercion every cell of a designated timestamp column is the
\* missing timestamp or a parsed timestamp; an unparseable raw value becomes
\* the missing timestamp and keeps its row; absent columns stay absent.
C8_TimestampsCoerced ==
    /\ stage \in {"coerced", "cleaned"} =>
          /\ \A c \in DatetimeColumnSet \cap out.columns : \A r \in RowSet(out) :
                /\ r.cells[c] = NaT \/ IsTs(r.cells[c])
                /\ RowAt(df, r.index).cells[c] \in Unparseable => r.cells[c] = NaT
          /\ DatetimeColumnSet \cap out.columns = DatetimeColumnSet \cap df.columns
    /\ stage = "coerced" =>
          /\ out.columns = df.columns
          /\ [i \in 1..Len(out.rows) |-> out.rows[i].index]
                = [i \in 1..Len(df.rows) |-> df.rows[i].index]

\* a coerced table that lacks a designated column and held both parseable
\* and unparseable text
C8_Witness ==
    /\ stage = "coerced"
    /\ "visit_end_time" \notin df.columns /\ "scheduled_start" \in df.columns
    /\ \E r \in RowSet(df) : /\ r.cells["scheduled_start"] = S("2024-13-45 10:00:00")
                             /\ RowAt(out, r.index).cells["scheduled_start"] = NaT
    /\ \E r \in RowSet(out) : IsTs(r.cells["scheduled_start"])

\* C9: only deduplication removes rows: the steps before it keep every row,
\* a row is absent from the output only if a row of the same appointment_id
\* is present, the output is no longer than the input and every
\* appointment_id of the input is still there.
C9_OnlyDedupeRemovesRows ==
    /\ Cleaned =>
          /\ LET coerced == coerce_datetimes(df, DATETIME_COLUMNS)
                 normal == NormalizeCategories(coerced)
                 parsed == ParseBooleans(normal, BOOLEAN_COLUMNS)
             IN  /\ Len(coerced.rows) = Len(df.rows)
                 /\ Len(normal.rows) = Len(df.rows)
                 /\ Len(parsed.rows) = Len(df.rows)
          /\ Len(out.rows) <= Len(df.rows)
          /\ Indexes(out) \subseteq Indexes(df)
          /\ Cardinality(Indexes(out)) = Len(out.rows)
          /\ \A r \in RowSet(df) :
                r.index \notin Indexes(out) =>
                    /\ "appointment_id" \in df.columns
                    /\ \E o \in RowSet(out) :
                          ValSame(o.cells["appointment_id"], r.cells["appointment_id"])
    /\ stage = "featured" => Len(out.rows) = Len(df.rows)

\* a cleaning that removed a row of a table with two appointment_ids
C9_Witness ==
    /\ Cleaned /\ "appointment_id" \in df.columns
    /\ Len(out.rows) < Len(df.rows) /\ Len(out.rows) >= 2

\* the rows of r's group in the table dedupe_latest_created_at was given
\* that share the group's greatest created_at
Latest(r) ==
    {q \in Group(df, r) : \A g \in Group(df, r) : NotLater(Created(g), Created(q))}

\* the first part of C10: with a created_at column, the retained row of an
\* appointment_id is the last in input order of its rows with the greatest
\* created_at
TiesKeepLast ==
    (stage = "deduped" /\ {"appointment_id", "created_at"} \subseteq df.columns) =>
        \A r \in RowSet(df) : \A o \in Group(out, r) :
            /\ o.index \in {q.index : q \in Latest(r)}
            /\ \A q \in Latest(r) : PosOf(df, q.index) <= PosOf(df, o.index)

\* the retained rows are those the function gives for the table it was
\* handed, whatever run reached that table
RetainedByTable ==
    stage = "deduped" => out = dedupe_latest_created_at(df)

\* the retained row of r's appointment_id is the last row of that id in
\* the input order
KeepsLastOf(r) ==
    \A o \in Group(out, r) :
        \A q \in Group(df, r) : PosOf(df, q.index) <= PosOf(df, o.index)

\* C10 as stated: ties keep the last row in input order; without a
\* created_at column the retained row of an appointment_id is the last row
\* with that id in input order; the same table always yields the same rows.
C10_LastInInputOrder ==
    /\ TiesKeepLast
    /\ (stage = "deduped" /\ "appointment_id" \in df.columns
          /\ "created_at" \notin df.columns) =>
          \A r \in RowSet(df) : KeepsLastOf(r)
    /\ RetainedByTable

\* the rows of t that have an appointment_id
WithId(t) == {q \in RowSet(t) : ~isna(q.cells["appointment_id"])}

\* C10 as amended: ties keep the last row in input order when the table has
\* a created_at column; without one, the retained row of an appointment_id
\* is the last row with that id in input order when the id is missing or at
\* most SMALL_QUICKSORT + 1 rows have an id, and in any table it is exactly
\* one of that id's rows; the same table always yields the same rows.
C10_LastWhileSortKeepsInputOrder ==
    /\ TiesKeepLast
    /\ (stage = "deduped" /\ "appointment_id" \in df.columns
          /\ "created_at" \notin df.columns) =>
          \A r \in RowSet(df) :
              /\ Cardinality(Group(out, r)) = 1
              /\ \A o \in Group(out, r) : o \in Group(df, r)
              /\ (isna(r.cells["appointment_id"])
                    \/ Cardinality(WithId(df)) <= SMALL_QUICKSORT + 1) =>
                    KeepsLastOf(r)
    /\ RetainedByTable

\* a deduplication that met two rows of one id with the same greatest
\* created_at and kept the later of them
C10_Witness ==
    /\ stage = "deduped" /\ {"appointment_id", "created_at"} \subseteq df.columns
    /\ \E r, q \in RowSet(df) :
          /\ PosOf(df, r.index) < PosOf(df, q.index)
          /\ q \in Latest(r) /\ r \in Latest(r) /\ IsTs(Created(r))
          /\ q.index \in Indexes(out) /\ r.index \notin Indexes(out)

====
